---- MODULE Spec2Model ----
(***************************************************************************)
(* Dashboard of the IoT weather station (raspberry-pi/dashboard/app.py):   *)
(* the in-memory store (current_data, data_history) guarded by data_lock,  *)
(* the MQTT callback on_message that writes it, and the Flask routes       *)
(* get_data, get_history and control_relay; and the mock device            *)
(* (raspberry-pi/mock_esp32/mock_esp32.py): its main loop and its MQTT     *)
(* callback, which share relay_state and auto_mode.                        *)
(*                                                                         *)
(* Text (Python str) is a sequence of one-character strings, so that       *)
(* float(), int(), str.upper() and str.lower() are computed, not assumed.  *)
(* A Python float is the integer number of hundredths it denotes.          *)
(* None and a raised ValueError are the empty sequence <<>>; a value v is  *)
(* the one-element sequence <<v>>.                                         *)
(***************************************************************************)
EXTENDS Integers, Sequences, FiniteSets, TLC

(***************************************************************************)
(* Bounds of the model.                                                    *)
(***************************************************************************)
\* MAX_HISTORY_SIZE of the configuration (app.py:38 reads it); 100 in
\* config.py, kept small here so that eviction happens within MaxMsgs.
HISTORY_SIZE == 3
\* Messages the broker delivers to on_message in one run.
MaxMsgs == 4
\* Messages delivered in a run that also serves HTTP requests.
MaxMsgsServing == 2
\* Clock readings per second: strftime("%Y-%m-%d %H:%M:%S") drops the rest.
TicksPerSecond == 2
\* Commands sent to the mock device in one run.
MaxCommands == 2

(***************************************************************************)
(* Text: Python's str operations on ASCII text.                            *)
(***************************************************************************)
Lowers == <<"a","b","c","d","e","f","g","h","i","j","k","l","m",
            "n","o","p","q","r","s","t","u","v","w","x","y","z">>
Uppers == <<"A","B","C","D","E","F","G","H","I","J","K","L","M",
            "N","O","P","Q","R","S","T","U","V","W","X","Y","Z">>
Digits == <<"0","1","2","3","4","5","6","7","8","9">>

IndexIn(c, seq) == IF \E i \in 1..Len(seq) : seq[i] = c
                   THEN CHOOSE i \in 1..Len(seq) : seq[i] = c
                   ELSE 0

UpperChar(c) == IF IndexIn(c, Lowers) > 0 THEN Uppers[IndexIn(c, Lowers)] ELSE c
LowerChar(c) == IF IndexIn(c, Uppers) > 0 THEN Lowers[IndexIn(c, Uppers)] ELSE c

\* str.upper()
Upper(s) == [i \in 1..Len(s) |-> UpperChar(s[i])]
\* str.lower()
Lower(s) == [i \in 1..Len(s) |-> LowerChar(s[i])]

IsDigit(c) == IndexIn(c, Digits) > 0
AllDigits(s) == \A i \in 1..Len(s) : IsDigit(s[i])

RECURSIVE DigitsValue(_)
DigitsValue(s) == IF s = <<>> THEN 0
                  ELSE 10 * DigitsValue(SubSeq(s, 1, Len(s) - 1))
                       + (IndexIn(s[Len(s)], Digits) - 1)

\* An optional leading sign, split off.
SignOf(s) == IF s # <<>> /\ s[1] = "-" THEN -1 ELSE 1
Unsigned(s) == IF s # <<>> /\ s[1] \in {"-", "+"} THEN Tail(s) ELSE s

\* int(payload): <<n>>, or <<>> when int() raises ValueError.
ParseInt(s) ==
    LET u == Unsigned(s)
    IN  IF u # <<>> /\ AllDigits(u) THEN << SignOf(s) * DigitsValue(u) >> ELSE <<>>

\* float(payload), in hundredths: <<v>>, or <<>> when float() raises
\* ValueError.  Decimal notation (sign, digits, one optional point); digits
\* after the second fractional one are below the resolution kept here.
ParseFloat(s) ==
    LET u    == Unsigned(s)
        dot  == IndexIn(".", u)
        ip   == IF dot = 0 THEN u ELSE SubSeq(u, 1, dot - 1)
        fp   == IF dot = 0 THEN <<>> ELSE SubSeq(u, dot + 1, Len(u))
        frac == IF Len(fp) = 0 THEN 0
                ELSE IF Len(fp) = 1 THEN 10 * DigitsValue(fp)
                ELSE DigitsValue(SubSeq(fp, 1, 2))
    IN  IF /\ Len(ip) + Len(fp) > 0
           /\ AllDigits(ip) /\ AllDigits(fp)
        THEN << SignOf(s) * (100 * DigitsValue(ip) + frac) >>
        ELSE <<>>

(***************************************************************************)
(* Threads, topics and the inputs of one run.                              *)
(***************************************************************************)
\* loop_start() runs one network thread; it calls on_message for each
\* delivered message, one after the other.
Writers == {"mqtt"}
\* Flask serves each request on a thread of its own: two requests in one run.
HttpThreads == {"http1", "http2"}
Threads == Writers \cup HttpThreads

Unlocked == "unlocked"

NumericTopics == {"sensor/temperature", "sensor/humidity", "sensor/soil_moisture"}
HandledTopics == NumericTopics \cup {"actuator/relay_status", "sensor/status"}
\* on_connect subscribes to MQTT_TOPICS and to actuator/relay_control.
SubscribedTopics == HandledTopics \cup {"actuator/relay_control"}

\* The metric a numeric topic updates.
MetricOf(topic) == CASE topic = "sensor/temperature"   -> "temperature"
                     [] topic = "sensor/humidity"      -> "humidity"
                     [] topic = "sensor/soil_moisture" -> "soil_moisture"
Metrics == {"temperature", "humidity", "soil_moisture"}

\* Payloads (msg.payload.decode("utf-8")).
P_21_0   == <<"2","1",".","0">>
P_21_5   == <<"2","1",".","5">>
P_22_0   == <<"2","2",".","0">>
P_22_5   == <<"2","2",".","5">>
P_40     == <<"4","0">>
P_abc    == <<"a","b","c">>
P_on     == <<"o","n">>
P_ONLINE == <<"O","N","L","I","N","E">>

S_ON   == <<"O","N">>
S_OFF  == <<"O","F","F">>
S_AUTO == <<"A","U","T","O">>
S_offline == <<"o","f","f","l","i","n","e">>
S_None == <<"N","o","n","e">>

\* The (topic, payload) pairs the broker may deliver.
Inbound ==
    ({"sensor/temperature"} \X {P_21_0, P_21_5, P_22_0, P_22_5, P_abc})
    \cup ({"sensor/humidity"} \X {P_40})
    \cup ({"sensor/soil_moisture"} \X {P_40, P_21_5, P_abc})
    \cup ({"actuator/relay_status"} \X {P_on})
    \cup ({"sensor/status"} \X {P_ONLINE})
    \cup ({"actuator/relay_control"} \X {S_ON})

\* Those of them delivered in a run that also serves HTTP requests.
InboundServing ==
    ({"sensor/temperature"} \X {P_21_0, P_21_5, P_abc})
    \cup ({"sensor/soil_moisture"} \X {P_40})
    \cup ({"actuator/relay_status"} \X {P_on})
    \cup ({"actuator/relay_control"} \X {S_ON})

\* Well-formed readings: enough of them fill the series past their capacity.
InboundReadings ==
    ({"sensor/temperature"} \X {P_21_0, P_21_5})
    \cup ({"sensor/soil_moisture"} \X {P_40})

\* What arrives with the topic list of config.py (soil_moisture, relay_status,
\* status) and the actuator/relay_control subscription of on_connect.
InboundSoilOnly ==
    ({"sensor/soil_moisture"} \X {P_40, P_abc})
    \cup ({"actuator/relay_status"} \X {P_on})
    \cup ({"sensor/status"} \X {P_ONLINE})
    \cup ({"actuator/relay_control"} \X {S_ON})

\* float(payload) on temperature and humidity, int(payload) on soil_moisture.
ParseFor(topic, payload) ==
    IF topic = "sensor/soil_moisture" THEN ParseInt(payload) ELSE ParseFloat(payload)

(***************************************************************************)
(* State.                                                                  *)
(***************************************************************************)
VARIABLES
    current_data,   \* app.py:51  latest value of every metric, last_update
    data_history,   \* app.py:44  the four deques
    data_lock,      \* app.py:60  the thread holding the lock, or Unlocked
    clock,          \* the last reading of datetime.now()
    pc,             \* where each thread is
    msg,            \* on_message's locals: topic, payload, timestamp, value
    copied,         \* a route's local copy of the store, taken under the lock
    response,       \* the HTTP response returned last
    published,      \* what mqtt_publisher.publish was called with, in order
    arrived,        \* history variable: per metric, every parsed value delivered
    dropped,        \* history variable: the message the except branch dropped last
    nDelivered,     \* messages delivered so far
    relay_state,            \* mock_esp32.py:48  the mock device's relay
    auto_mode,              \* mock_esp32.py:49
    current_soil_moisture,  \* mock_esp32.py:47  in half percents
    esp_pc,                 \* where the mock's main loop and MQTT callback are
    esp_msg,                \* the mock's on_message local: payload
    relay_status_out,       \* what publish_relay_status published last
    last_command,           \* history variable: the command processed last
    nCommands               \* commands delivered to the mock so far

vars == << current_data, data_history, data_lock, clock, pc, msg, copied,
           response, published, arrived, dropped, nDelivered,
           relay_state, auto_mode, current_soil_moisture, esp_pc, esp_msg,
           relay_status_out, last_command, nCommands >>

\* The dashboard process's variables and the mock device's.
dashboard == << current_data, data_history, data_lock, clock, pc, msg, copied,
                response, published, arrived, dropped, nDelivered >>
esp32 == << relay_state, auto_mode, current_soil_moisture, esp_pc, esp_msg,
            relay_status_out, last_command, nCommands >>

store == << current_data, data_history >>

\* Mutant: a full deque refuses the new item instead of evicting the oldest.
DequeAppendKeepsOldest(d, x) ==
    IF Len(d) >= HISTORY_SIZE THEN d ELSE Append(d, x)

\* Mutant: a deque without maxlen.
DequeAppendUnbounded(d, x) == Append(d, x)

\* deque(maxlen=HISTORY_SIZE).append(x): a full deque drops its oldest item.
DequeAppend(d, x) ==
    IF Len(d) >= HISTORY_SIZE THEN Append(Tail(d), x) ELSE Append(d, x)

\* timestamp.strftime("%Y-%m-%d %H:%M:%S"): second precision.
Strftime(t) == << t \div TicksPerSecond >>
\* timestamp.isoformat(): microsecond precision, one string per reading.
Isoformat(t) == t

NoMsg == [topic |-> "", payload |-> <<>>, timestamp |-> 0, value |-> 0]
NoCopy == [kind |-> "none"]
NoResponse == [route |-> "none"]

\* mock_esp32.py:45-49: the mock device's globals; its main loop and its
\* MQTT callback have not run.
InitMock ==
    /\ relay_state = FALSE
    /\ auto_mode = TRUE
    /\ current_soil_moisture = 2 * 45
    /\ esp_pc = [main |-> "loop", callback |-> "idle"]
    /\ esp_msg = <<>>
    /\ relay_status_out = <<>>
    /\ last_command = "none"
    /\ nCommands = 0

Init ==
    /\ current_data = [temperature   |-> 0,
                       humidity      |-> 0,
                       soil_moisture |-> 0,
                       relay_status  |-> S_OFF,
                       status        |-> S_offline,
                       last_update   |-> <<>>]
    /\ data_history = [temperature   |-> <<>>,
                       humidity      |-> <<>>,
                       soil_moisture |-> <<>>,
                       timestamps    |-> <<>>]
    /\ data_lock = Unlocked
    /\ clock = 0
    /\ pc = [t \in Threads |-> "idle"]
    /\ msg = [t \in Writers |-> NoMsg]
    /\ copied = [t \in HttpThreads |-> NoCopy]
    /\ response = NoResponse
    /\ published = <<>>
    /\ arrived = [m \in Metrics |-> <<>>]
    /\ dropped = <<>>
    /\ nDelivered = 0
    /\ InitMock

(***************************************************************************)
(* data_lock.                                                              *)
(***************************************************************************)
\* Mutant: entering the with block does not wait for the lock.
LockNeverWaits == TRUE

\* `with data_lock:` entry: blocks until the lock is free.
LockFree == data_lock = Unlocked

(***************************************************************************)
(* on_message (app.py:95-133), one action per statement.                   *)
(***************************************************************************)
\* The reading datetime.now() returns next: it has microsecond resolution,
\* and the calls of the one MQTT thread are further apart than that.
Readings == {clock + 1}

\* 96-98: the callback starts; topic and payload are read and
\* timestamp = datetime.now() returns the reading `now`.
OnMessageStart(t, topic, payload, now) ==
    /\ pc[t] = "idle"
    /\ nDelivered < MaxMsgs
    /\ nDelivered' = nDelivered + 1
    /\ clock' = now
    /\ msg' = [msg EXCEPT ![t] = [topic |-> topic, payload |-> payload,
                                  timestamp |-> now, value |-> 0]]
    /\ arrived' = IF topic \in NumericTopics /\ ParseFor(topic, payload) # <<>>
                  THEN [arrived EXCEPT ![MetricOf(topic)] =
                            Append(@, ParseFor(topic, payload)[1])]
                  ELSE arrived
    /\ pc' = [pc EXCEPT ![t] = "acquire"]
    /\ UNCHANGED << current_data, data_history, data_lock, copied,
                    response, published, dropped >>
    /\ UNCHANGED esp32

\* 101: with data_lock
OnMessageAcquire(t) ==
    /\ pc[t] = "acquire"
    /\ LockFree
    /\ data_lock' = t
    /\ pc' = [pc EXCEPT ![t] = "dispatch"]
    /\ UNCHANGED << current_data, data_history, clock, msg, copied, response,
                    published, arrived, dropped, nDelivered >>
    /\ UNCHANGED esp32

\* 103-104, 109-110, 114-115: value = float(payload) / int(payload);
\* current_data[metric] = value.
OnMessageSetCurrent(t) ==
    /\ pc[t] = "dispatch"
    /\ msg[t].topic \in NumericTopics
    /\ ParseFor(msg[t].topic, msg[t].payload) # <<>>
    /\ current_data' = [current_data EXCEPT ![MetricOf(msg[t].topic)] =
                            ParseFor(msg[t].topic, msg[t].payload)[1]]
    /\ msg' = [msg EXCEPT ![t].value = ParseFor(msg[t].topic, msg[t].payload)[1]]
    /\ pc' = [pc EXCEPT ![t] = "append"]
    /\ UNCHANGED << data_history, data_lock, clock, copied, response,
                    published, arrived, dropped, nDelivered >>
    /\ UNCHANGED esp32

\* Mutant: last_update is stamped although the payload did not parse (as a
\* `finally:` would do).
OnMessageValueErrorStamps(t) ==
    /\ pc[t] = "dispatch"
    /\ msg[t].topic \in NumericTopics
    /\ ParseFor(msg[t].topic, msg[t].payload) = <<>>
    /\ current_data' = [current_data EXCEPT !.last_update =
                            Strftime(msg[t].timestamp)]
    /\ data_lock' = Unlocked
    /\ dropped' = <<msg[t].topic, msg[t].payload>>
    /\ msg' = [msg EXCEPT ![t] = NoMsg]
    /\ pc' = [pc EXCEPT ![t] = "idle"]
    /\ UNCHANGED << data_history, clock, copied, response,
                    published, arrived, nDelivered >>
    /\ UNCHANGED esp32

\* Mutant: the lock is taken with acquire() and released only on the normal
\* path, so a ValueError leaves it held.
OnMessageValueErrorKeepsLock(t) ==
    /\ pc[t] = "dispatch"
    /\ msg[t].topic \in NumericTopics
    /\ ParseFor(msg[t].topic, msg[t].payload) = <<>>
    /\ dropped' = <<msg[t].topic, msg[t].payload>>
    /\ msg' = [msg EXCEPT ![t] = NoMsg]
    /\ pc' = [pc EXCEPT ![t] = "idle"]
    /\ UNCHANGED << current_data, data_history, data_lock, clock, copied,
                    response, published, arrived, nDelivered >>
    /\ UNCHANGED esp32

\* 103, 109, 114 raise ValueError: the with block releases the lock and the
\* except branch (132-133) prints the error.
OnMessageValueError(t) ==
    /\ pc[t] = "dispatch"
    /\ msg[t].topic \in NumericTopics
    /\ ParseFor(msg[t].topic, msg[t].payload) = <<>>
    /\ data_lock' = Unlocked
    /\ dropped' = <<msg[t].topic, msg[t].payload>>
    /\ msg' = [msg EXCEPT ![t] = NoMsg]
    /\ pc' = [pc EXCEPT ![t] = "idle"]
    /\ UNCHANGED << current_data, data_history, clock, copied, response,
                    published, arrived, nDelivered >>
    /\ UNCHANGED esp32

\* Mutant: the humidity branch appends a timestamp as the temperature branch
\* does.
OnMessageAppendHistoryStampsHumidity(t) ==
    /\ pc[t] = "append"
    /\ data_history' =
        IF msg[t].topic = "sensor/humidity"
        THEN [data_history EXCEPT
                 !.humidity = DequeAppend(@, msg[t].value),
                 !.timestamps = DequeAppend(@, Isoformat(msg[t].timestamp))]
        ELSE [data_history EXCEPT ![MetricOf(msg[t].topic)] =
                 DequeAppend(@, msg[t].value)]
    /\ pc' = [pc EXCEPT ![t] =
                IF msg[t].topic = "sensor/humidity" THEN "last_update" ELSE "stamp"]
    /\ UNCHANGED << current_data, data_lock, clock, msg, copied, response,
                    published, arrived, dropped, nDelivered >>
    /\ UNCHANGED esp32

\* 105, 111, 116: data_history[metric].append(value)
OnMessageAppendHistory(t) ==
    /\ pc[t] = "append"
    /\ data_history' = [data_history EXCEPT ![MetricOf(msg[t].topic)] =
                            DequeAppend(@, msg[t].value)]
    /\ pc' = [pc EXCEPT ![t] =
                IF msg[t].topic = "sensor/humidity" THEN "last_update" ELSE "stamp"]
    /\ UNCHANGED << current_data, data_lock, clock, msg, copied, response,
                    published, arrived, dropped, nDelivered >>
    /\ UNCHANGED esp32

\* Mutant: without the repair rule of 117-120, only temperature appends a
\* timestamp.
OnMessageAppendTimestampTemperatureOnly(t) ==
    /\ pc[t] = "stamp"
    /\ data_history' =
        IF msg[t].topic = "sensor/temperature"
        THEN [data_history EXCEPT !.timestamps =
                  DequeAppend(@, Isoformat(msg[t].timestamp))]
        ELSE data_history
    /\ pc' = [pc EXCEPT ![t] = "last_update"]
    /\ UNCHANGED << current_data, data_lock, clock, msg, copied, response,
                    published, arrived, dropped, nDelivered >>
    /\ UNCHANGED esp32

\* 106: temperature always appends its timestamp.
\* 117-120: soil_moisture appends it when timestamps is the shorter series.
OnMessageAppendTimestamp(t) ==
    /\ pc[t] = "stamp"
    /\ data_history' =
        IF \/ msg[t].topic = "sensor/temperature"
           \/ Len(data_history.timestamps) < Len(data_history.soil_moisture)
        THEN [data_history EXCEPT !.timestamps =
                  DequeAppend(@, Isoformat(msg[t].timestamp))]
        ELSE data_history
    /\ pc' = [pc EXCEPT ![t] = "last_update"]
    /\ UNCHANGED << current_data, data_lock, clock, msg, copied, response,
                    published, arrived, dropped, nDelivered >>
    /\ UNCHANGED esp32

\* Mutant: relay_status is stored as received.
OnMessageSetStatusRaw(t) ==
    /\ pc[t] = "dispatch"
    /\ msg[t].topic \in {"actuator/relay_status", "sensor/status"}
    /\ current_data' =
        IF msg[t].topic = "actuator/relay_status"
        THEN [current_data EXCEPT !.relay_status = msg[t].payload]
        ELSE [current_data EXCEPT !.status = msg[t].payload]
    /\ pc' = [pc EXCEPT ![t] = "last_update"]
    /\ UNCHANGED << data_history, data_lock, clock, msg, copied, response,
                    published, arrived, dropped, nDelivered >>
    /\ UNCHANGED esp32

\* 122-126: relay_status is stored uppercased, status as received.
OnMessageSetStatus(t) ==
    /\ pc[t] = "dispatch"
    /\ msg[t].topic \in {"actuator/relay_status", "sensor/status"}
    /\ current_data' =
        IF msg[t].topic = "actuator/relay_status"
        THEN [current_data EXCEPT !.relay_status = Upper(msg[t].payload)]
        ELSE [current_data EXCEPT !.status = msg[t].payload]
    /\ pc' = [pc EXCEPT ![t] = "last_update"]
    /\ UNCHANGED << data_history, data_lock, clock, msg, copied, response,
                    published, arrived, dropped, nDelivered >>
    /\ UNCHANGED esp32

\* No branch of the if/elif chain (102-126) matches the topic.
OnMessageNoBranch(t) ==
    /\ pc[t] = "dispatch"
    /\ msg[t].topic \notin HandledTopics
    /\ pc' = [pc EXCEPT ![t] = "last_update"]
    /\ UNCHANGED << current_data, data_history, data_lock, clock, msg, copied,
                    response, published, arrived, dropped, nDelivered >>
    /\ UNCHANGED esp32

\* 128: current_data["last_update"] = timestamp.strftime(...), after the chain.
OnMessageLastUpdate(t) ==
    /\ pc[t] = "last_update"
    /\ current_data' = [current_data EXCEPT !.last_update =
                            Strftime(msg[t].timestamp)]
    /\ pc' = [pc EXCEPT ![t] = "release"]
    /\ UNCHANGED << data_history, data_lock, clock, msg, copied, response,
                    published, arrived, dropped, nDelivered >>
    /\ UNCHANGED esp32

\* The with block ends (the lock is released); 130 prints; the callback returns.
OnMessageRelease(t) ==
    /\ pc[t] = "release"
    /\ data_lock' = Unlocked
    /\ msg' = [msg EXCEPT ![t] = NoMsg]
    /\ pc' = [pc EXCEPT ![t] = "idle"]
    /\ UNCHANGED << current_data, data_history, clock, copied, response,
                    published, arrived, dropped, nDelivered >>
    /\ UNCHANGED esp32

(***************************************************************************)
(* Flask routes.                                                           *)
(***************************************************************************)
\* 159-160: GET /api/data arrives; with data_lock
GetDataAcquire(t) ==
    /\ pc[t] = "idle"
    /\ LockFree
    /\ data_lock' = t
    /\ pc' = [pc EXCEPT ![t] = "data_copy"]
    /\ UNCHANGED << current_data, data_history, clock, msg, copied, response,
                    published, arrived, dropped, nDelivered >>
    /\ UNCHANGED esp32

\* Mutant: `return jsonify(payload)` is indented into the with block, so the
\* response is built while the lock is held.
GetDataCopyAnswersLocked(t) ==
    /\ pc[t] = "data_copy"
    /\ response' = [route |-> "data", code |-> 200, body |-> current_data]
    /\ data_lock' = Unlocked
    /\ pc' = [pc EXCEPT ![t] = "done"]
    /\ UNCHANGED << current_data, data_history, clock, msg, copied,
                    published, arrived, dropped, nDelivered >>
    /\ UNCHANGED esp32

\* 161: payload = dict(current_data); the with block ends.
GetDataCopy(t) ==
    /\ pc[t] = "data_copy"
    /\ copied' = [copied EXCEPT ![t] = [kind |-> "data", value |-> current_data]]
    /\ data_lock' = Unlocked
    /\ pc' = [pc EXCEPT ![t] = "data_return"]
    /\ UNCHANGED << current_data, data_history, clock, msg, response,
                    published, arrived, dropped, nDelivered >>
    /\ UNCHANGED esp32

\* Mutant: the response is built from the live current_data, not from the
\* copy taken under the lock.
GetDataReturnLive(t) ==
    /\ pc[t] = "data_return"
    /\ response' = [route |-> "data", code |-> 200, body |-> current_data]
    /\ copied' = [copied EXCEPT ![t] = NoCopy]
    /\ pc' = [pc EXCEPT ![t] = "done"]
    /\ UNCHANGED << current_data, data_history, data_lock, clock, msg,
                    published, arrived, dropped, nDelivered >>
    /\ UNCHANGED esp32

\* 162: return jsonify(payload)
GetDataReturn(t) ==
    /\ pc[t] = "data_return"
    /\ response' = [route |-> "data", code |-> 200, body |-> copied[t].value]
    /\ copied' = [copied EXCEPT ![t] = NoCopy]
    /\ pc' = [pc EXCEPT ![t] = "done"]
    /\ UNCHANGED << current_data, data_history, data_lock, clock, msg,
                    published, arrived, dropped, nDelivered >>
    /\ UNCHANGED esp32

\* Mutant: get_history reads the series without entering `with data_lock`.
GetHistoryAcquireNoLock(t) ==
    /\ pc[t] = "idle"
    /\ pc' = [pc EXCEPT ![t] = "history_copy"]
    /\ UNCHANGED << current_data, data_history, data_lock, clock, msg, copied,
                    response, published, arrived, dropped, nDelivered >>
    /\ UNCHANGED esp32

\* 166-167: GET /api/history arrives; with data_lock
GetHistoryAcquire(t) ==
    /\ pc[t] = "idle"
    /\ LockFree
    /\ data_lock' = t
    /\ pc' = [pc EXCEPT ![t] = "history_copy"]
    /\ UNCHANGED << current_data, data_history, clock, msg, copied, response,
                    published, arrived, dropped, nDelivered >>
    /\ UNCHANGED esp32

\* 168-173: a list() of each deque; the with block ends.
GetHistoryCopy(t) ==
    /\ pc[t] = "history_copy"
    /\ copied' = [copied EXCEPT ![t] = [kind |-> "history", value |-> data_history]]
    /\ data_lock' = Unlocked
    /\ pc' = [pc EXCEPT ![t] = "history_return"]
    /\ UNCHANGED << current_data, data_history, clock, msg, response,
                    published, arrived, dropped, nDelivered >>
    /\ UNCHANGED esp32

\* 174: return jsonify(history_payload)
GetHistoryReturn(t) ==
    /\ pc[t] = "history_return"
    /\ response' = [route |-> "history", code |-> 200, body |-> copied[t].value]
    /\ copied' = [copied EXCEPT ![t] = NoCopy]
    /\ pc' = [pc EXCEPT ![t] = "done"]
    /\ UNCHANGED << current_data, data_history, data_lock, clock, msg,
                    published, arrived, dropped, nDelivered >>
    /\ UNCHANGED esp32

(***************************************************************************)
(* POST /api/relay/control (app.py:177-191).                               *)
(***************************************************************************)
\* What request.get_json(silent=True) returns: None (no JSON body, or one
\* that does not parse) or the parsed JSON value.
JNone         == [type |-> "none"]
JNull         == [type |-> "null"]
JString(s)    == [type |-> "string", chars |-> s]
JArray(e)     == [type |-> "array", elems |-> e]
JObject(m)    == [type |-> "object", members |-> m]
EmptyDict     == JObject(<<>>)

\* Python truth value of it.
Truthy(j) == CASE j.type = "none"   -> FALSE
               [] j.type = "null"   -> FALSE
               [] j.type = "string" -> j.chars # <<>>
               [] j.type = "array"  -> j.elems # <<>>
               [] j.type = "object" -> DOMAIN j.members # {}

\* str(x) of a JSON string or null.
PyStr(j) == IF j.type = "string" THEN j.chars ELSE S_None

\* The command texts posted in one run.
CommandTexts == { P_on, <<"O","f","f">>, <<"a","u","t","o">>,
                  <<"S","T","A","R","T">>, <<>> }

\* The request bodies posted in one run: no JSON (or JSON that does not
\* parse), {}, [], ["ON"], {"command": null} and {"command": c}.
Bodies ==
    {JNone, EmptyDict, JArray(<<>>), JArray(<<JString(S_ON)>>),
     JObject([command |-> JNull])}
    \cup { JObject([command |-> JString(c)]) : c \in CommandTexts }

ValidCommands == {S_ON, S_OFF, S_AUTO}

\* 180: data = request.get_json(silent=True) or {}
DataOf(body) == IF Truthy(body) THEN body ELSE EmptyDict
\* 181: data.get("command", ""): only a dict has .get
GetRaises(data) == data.type # "object"
CommandOf(data) ==
    Upper(IF "command" \in DOMAIN data.members
          THEN PyStr(data.members["command"])
          ELSE <<>>)

\* Mutant: an accepted command is written to relay_status at once, without
\* waiting for the device's actuator/relay_status message.
ControlRelayOptimistic(t, body) ==
    /\ pc[t] = "idle"
    /\ pc' = [pc EXCEPT ![t] = "done"]
    /\ LET data == DataOf(body) IN
       IF GetRaises(data)
       THEN /\ response' = [route |-> "control", code |-> 500,
                            body |-> [status |-> "error"], request |-> body]
            /\ UNCHANGED << published, current_data >>
       ELSE IF CommandOf(data) \in ValidCommands
       THEN /\ published' = Append(published,
                   [topic |-> "actuator/relay_control",
                    payload |-> CommandOf(data), qos |-> 1])
            /\ current_data' = [current_data EXCEPT !.relay_status = CommandOf(data)]
            /\ response' = [route |-> "control", code |-> 200,
                            body |-> [status |-> "success",
                                      command |-> CommandOf(data)],
                            request |-> body]
       ELSE /\ response' = [route |-> "control", code |-> 400,
                            body |-> [status |-> "error"], request |-> body]
            /\ UNCHANGED << published, current_data >>
    /\ UNCHANGED << data_history, data_lock, clock, msg,
                    copied, arrived, dropped, nDelivered >>
    /\ UNCHANGED esp32

\* The whole handler: validation, the publish, the response.
ControlRelay(t, body) ==
    /\ pc[t] = "idle"
    /\ pc' = [pc EXCEPT ![t] = "done"]
    /\ LET data == DataOf(body) IN
       IF GetRaises(data)
       THEN \* 190-191: except Exception
            /\ response' = [route |-> "control", code |-> 500,
                            body |-> [status |-> "error"], request |-> body]
            /\ published' = published
       ELSE IF CommandOf(data) \in ValidCommands
       THEN \* 184-186
            /\ published' = Append(published,
                   [topic |-> "actuator/relay_control",
                    payload |-> CommandOf(data), qos |-> 1])
            /\ response' = [route |-> "control", code |-> 200,
                            body |-> [status |-> "success",
                                      command |-> CommandOf(data)],
                            request |-> body]
       ELSE \* 188
            /\ response' = [route |-> "control", code |-> 400,
                            body |-> [status |-> "error"], request |-> body]
            /\ published' = published
    /\ UNCHANGED << current_data, data_history, data_lock, clock, msg,
                    copied, arrived, dropped, nDelivered >>
    /\ UNCHANGED esp32

(***************************************************************************)
(* The mock device (mock_esp32.py): its main loop and, on the thread of    *)
(* client.loop_start(), its on_message callback share relay_state and      *)
(* auto_mode without a lock.  current_soil_moisture counts half percents;  *)
(* the random walks of temperature and humidity do not reach the relay     *)
(* and are left out.                                                       *)
(***************************************************************************)
SOIL_MOISTURE_THRESHOLD_LOW  == 30
SOIL_MOISTURE_THRESHOLD_HIGH == 60

\* The payloads sent to actuator/relay_control in one run.
MockPayloads ==
    { P_on, <<"T","r","u","e">>, S_OFF, <<"0">>, S_AUTO, P_abc }

\* 100, 106, 112: the branch a payload selects.
MockCommand(payload) ==
    IF \/ Upper(payload) = S_ON
       \/ payload = <<"1">>
       \/ Lower(payload) = <<"t","r","u","e">>
    THEN "ON"
    ELSE IF \/ Upper(payload) = S_OFF
            \/ payload = <<"0">>
            \/ Lower(payload) = <<"f","a","l","s","e">>
    THEN "OFF"
    ELSE IF Upper(payload) = S_AUTO
    THEN "AUTO"
    ELSE "none"

\* 153: status = "ON" if relay_state else "OFF"
RelayStatusOf(state) == IF state THEN S_ON ELSE S_OFF

\* 181, 184: random.uniform(1.0, 3.0) up, random.uniform(0.2, 0.8) down, in
\* half percents.
WateringSteps == {2, 4, 6}
DryingSteps   == {1}
\* 187: max(0, min(100, current_soil_moisture))
ClampSoil(x) == IF x < 0 THEN 0 ELSE IF x > 2 * 100 THEN 2 * 100 ELSE x

\* 92-97: the callback starts on a message of actuator/relay_control, the
\* one topic the mock subscribes to (line 71).
MockOnMessageStart(payload) ==
    /\ esp_pc.callback = "idle"
    /\ nCommands < MaxCommands
    /\ nCommands' = nCommands + 1
    /\ esp_msg' = payload
    /\ esp_pc' = [esp_pc EXCEPT !.callback = "branch"]
    /\ UNCHANGED << relay_state, auto_mode, current_soil_moisture,
                    relay_status_out, last_command >>
    /\ UNCHANGED dashboard

\* 99-112: the if/elif chain picks its branch; no branch, the callback returns.
MockOnMessageBranch ==
    /\ esp_pc.callback = "branch"
    /\ esp_pc' = [esp_pc EXCEPT !.callback =
                    CASE MockCommand(esp_msg) = "ON"   -> "set_on"
                      [] MockCommand(esp_msg) = "OFF"  -> "set_off"
                      [] MockCommand(esp_msg) = "AUTO" -> "set_auto"
                      [] OTHER                         -> "idle"]
    /\ esp_msg' = IF MockCommand(esp_msg) = "none" THEN <<>> ELSE esp_msg
    /\ UNCHANGED << relay_state, auto_mode, current_soil_moisture,
                    relay_status_out, last_command, nCommands >>
    /\ UNCHANGED dashboard

\* 101 / 107: relay_state = True / False
MockOnMessageSetRelay ==
    /\ esp_pc.callback \in {"set_on", "set_off"}
    /\ relay_state' = (esp_pc.callback = "set_on")
    /\ esp_pc' = [esp_pc EXCEPT !.callback = "manual"]
    /\ UNCHANGED << auto_mode, current_soil_moisture, esp_msg,
                    relay_status_out, last_command, nCommands >>
    /\ UNCHANGED dashboard

\* 102 / 108: auto_mode = False
MockOnMessageManual ==
    /\ esp_pc.callback = "manual"
    /\ auto_mode' = FALSE
    /\ esp_pc' = [esp_pc EXCEPT !.callback = "publish"]
    /\ UNCHANGED << relay_state, current_soil_moisture, esp_msg,
                    relay_status_out, last_command, nCommands >>
    /\ UNCHANGED dashboard

\* 103-104 / 109-110: publish_relay_status(client); the callback returns.
MockOnMessagePublish ==
    /\ esp_pc.callback = "publish"
    /\ relay_status_out' = RelayStatusOf(relay_state)
    /\ last_command' = MockCommand(esp_msg)
    /\ esp_msg' = <<>>
    /\ esp_pc' = [esp_pc EXCEPT !.callback = "idle"]
    /\ UNCHANGED << relay_state, auto_mode, current_soil_moisture, nCommands >>
    /\ UNCHANGED dashboard

\* 113-114: auto_mode = True; the callback returns.
MockOnMessageAuto ==
    /\ esp_pc.callback = "set_auto"
    /\ auto_mode' = TRUE
    /\ last_command' = "AUTO"
    /\ esp_msg' = <<>>
    /\ esp_pc' = [esp_pc EXCEPT !.callback = "idle"]
    /\ UNCHANGED << relay_state, current_soil_moisture, relay_status_out,
                    nCommands >>
    /\ UNCHANGED dashboard

\* 274-280: SENSOR_INTERVAL has passed; simulate_sensors() (179-187) moves
\* the soil moisture up while the relay is on and down while it is off; the
\* three readings are published.
SimulateSensors ==
    /\ esp_pc.main = "loop"
    /\ \E step \in IF relay_state THEN WateringSteps ELSE DryingSteps :
          current_soil_moisture' =
              ClampSoil(IF relay_state
                        THEN current_soil_moisture + step
                        ELSE current_soil_moisture - step)
    /\ esp_pc' = [esp_pc EXCEPT !.main = "check_mode"]
    /\ UNCHANGED << relay_state, auto_mode, esp_msg, relay_status_out,
                    last_command, nCommands >>
    /\ UNCHANGED dashboard

\* 195: if auto_mode
CheckAutoControlMode ==
    /\ esp_pc.main = "check_mode"
    /\ esp_pc' = [esp_pc EXCEPT !.main = IF auto_mode THEN "check_low" ELSE "loop"]
    /\ UNCHANGED << relay_state, auto_mode, current_soil_moisture, esp_msg,
                    relay_status_out, last_command, nCommands >>
    /\ UNCHANGED dashboard

\* 196: if current_soil_moisture < SOIL_MOISTURE_THRESHOLD_LOW and not relay_state
CheckAutoControlLow ==
    /\ esp_pc.main = "check_low"
    /\ esp_pc' = [esp_pc EXCEPT !.main =
                    IF /\ current_soil_moisture < 2 * SOIL_MOISTURE_THRESHOLD_LOW
                       /\ ~relay_state
                    THEN "turn_on" ELSE "check_high"]
    /\ UNCHANGED << relay_state, auto_mode, current_soil_moisture, esp_msg,
                    relay_status_out, last_command, nCommands >>
    /\ UNCHANGED dashboard

\* 200: elif current_soil_moisture > SOIL_MOISTURE_THRESHOLD_HIGH and relay_state
CheckAutoControlHigh ==
    /\ esp_pc.main = "check_high"
    /\ esp_pc' = [esp_pc EXCEPT !.main =
                    IF /\ current_soil_moisture > 2 * SOIL_MOISTURE_THRESHOLD_HIGH
                       /\ relay_state
                    THEN "turn_off" ELSE "loop"]
    /\ UNCHANGED << relay_state, auto_mode, current_soil_moisture, esp_msg,
                    relay_status_out, last_command, nCommands >>
    /\ UNCHANGED dashboard

\* 197 / 201: relay_state = True / False
CheckAutoControlSetRelay ==
    /\ esp_pc.main \in {"turn_on", "turn_off"}
    /\ relay_state' = (esp_pc.main = "turn_on")
    /\ esp_pc' = [esp_pc EXCEPT !.main = "publish"]
    /\ UNCHANGED << auto_mode, current_soil_moisture, esp_msg,
                    relay_status_out, last_command, nCommands >>
    /\ UNCHANGED dashboard

\* 198 / 202: publish_relay_status(client); back to the loop.
CheckAutoControlPublish ==
    /\ esp_pc.main = "publish"
    /\ relay_status_out' = RelayStatusOf(relay_state)
    /\ esp_pc' = [esp_pc EXCEPT !.main = "loop"]
    /\ UNCHANGED << relay_state, auto_mode, current_soil_moisture, esp_msg,
                    last_command, nCommands >>
    /\ UNCHANGED dashboard

\* 288-291: STATUS_INTERVAL has passed: publish_status, publish_relay_status.
PublishPeriodicStatus ==
    /\ esp_pc.main = "loop"
    /\ relay_status_out' = RelayStatusOf(relay_state)
    /\ UNCHANGED << relay_state, auto_mode, current_soil_moisture, esp_pc,
                    esp_msg, last_command, nCommands >>
    /\ UNCHANGED dashboard

\* The mock device: the callback thread and the main loop, interleaved.
NextMock ==
    \/ \E payload \in MockPayloads : MockOnMessageStart(payload)
    \/ MockOnMessageBranch
    \/ MockOnMessageSetRelay
    \/ MockOnMessageManual
    \/ MockOnMessagePublish
    \/ MockOnMessageAuto
    \/ SimulateSensors
    \/ CheckAutoControlMode
    \/ CheckAutoControlLow
    \/ CheckAutoControlHigh
    \/ CheckAutoControlSetRelay
    \/ CheckAutoControlPublish
    \/ PublishPeriodicStatus

SpecMock == Init /\ [][NextMock]_vars

(***************************************************************************)
(* The program.                                                            *)
(***************************************************************************)
\* The broker delivers one of `inbound` to on_message.
Deliver(t, inbound) ==
    \E m \in inbound, now \in Readings : OnMessageStart(t, m[1], m[2], now)

\* on_message after its first statements, up to its return.
OnMessageBody(t) ==
    \/ OnMessageAcquire(t)
    \/ OnMessageSetCurrent(t)
    \/ OnMessageValueError(t)
    \/ OnMessageAppendHistory(t)
    \/ OnMessageAppendTimestamp(t)
    \/ OnMessageSetStatus(t)
    \/ OnMessageNoBranch(t)
    \/ OnMessageLastUpdate(t)
    \/ OnMessageRelease(t)

\* The Flask routes, each on its own thread.
Routes(t) ==
    \/ GetDataAcquire(t)
    \/ GetDataCopy(t)
    \/ GetDataReturn(t)
    \/ GetHistoryAcquire(t)
    \/ GetHistoryCopy(t)
    \/ GetHistoryReturn(t)
    \/ \E body \in Bodies : ControlRelay(t, body)

\* The dashboard: the MQTT thread and the Flask threads, interleaved.  While
\* requests are served, MaxMsgsServing messages of InboundServing arrive.
Next ==
    \/ \E t \in Writers :
        \/ nDelivered < MaxMsgsServing /\ Deliver(t, InboundServing)
        \/ OnMessageBody(t)
    \/ \E t \in HttpThreads : Routes(t)

Spec == Init /\ [][Next]_vars

\* A route that has started goes on to its return.
RouteBody(t) ==
    \/ GetDataCopy(t)
    \/ GetDataReturn(t)
    \/ GetHistoryCopy(t)
    \/ GetHistoryReturn(t)

\* One message of each kind: valid, malformed, handled without parsing, and
\* of a topic on_message has no branch for.
InboundLocking ==
    { <<"sensor/temperature", P_21_0>>, <<"sensor/temperature", P_abc>>,
      <<"actuator/relay_status", P_on>>, <<"actuator/relay_control", S_ON>> }

\* The users of data_lock: on_message and the two read routes.
NextLocking ==
    \/ \E t \in Writers :
        \/ nDelivered < MaxMsgsServing /\ Deliver(t, InboundLocking)
        \/ OnMessageBody(t)
    \/ \E t \in HttpThreads :
        \/ GetDataAcquire(t)
        \/ GetHistoryAcquire(t)
        \/ RouteBody(t)

\* They run on threads the interpreter keeps scheduling: a callback or a
\* route that can take its next statement eventually takes it.
SpecFair ==
    /\ Init
    /\ [][NextLocking]_vars
    /\ \A t \in Writers : WF_vars(OnMessageBody(t))
    /\ \A t \in HttpThreads : WF_vars(RouteBody(t))

\* Up to MaxMsgs well-formed readings arrive while the two read routes are
\* served: the steps on_message takes for a numeric topic that parses.
NextReadings ==
    \/ \E t \in Writers :
        \/ Deliver(t, InboundReadings)
        \/ OnMessageAcquire(t)
        \/ OnMessageSetCurrent(t)
        \/ OnMessageAppendHistory(t)
        \/ OnMessageAppendTimestamp(t)
        \/ OnMessageLastUpdate(t)
        \/ OnMessageRelease(t)
    \/ \E t \in HttpThreads :
        \/ GetDataAcquire(t)
        \/ GetDataCopy(t)
        \/ GetDataReturn(t)
        \/ GetHistoryAcquire(t)
        \/ GetHistoryCopy(t)
        \/ GetHistoryReturn(t)

SpecReadings == Init /\ [][NextReadings]_vars

\* The ingest path alone: every sequence of up to MaxMsgs messages of Inbound.
NextIngest ==
    \E t \in Writers :
        \/ Deliver(t, Inbound)
        \/ OnMessageBody(t)

SpecIngest == Init /\ [][NextIngest]_vars

\* The ingest path in the deployment of config.py, where soil_moisture is the
\* only numeric topic delivered.
NextSoilOnly ==
    \E t \in Writers :
        \/ Deliver(t, InboundSoilOnly)
        \/ OnMessageBody(t)

SpecSoilOnly == Init /\ [][NextSoilOnly]_vars

(***************************************************************************)
(* on_message called from more than one thread at a time.                  *)
(***************************************************************************)
\* The threads that call on_message: the MQTT thread and a second writer.
Callers == Writers \cup {"mqtt2"}

\* The store as constructed, with every caller outside on_message.
InitCallers ==
    /\ current_data = [temperature   |-> 0,
                       humidity      |-> 0,
                       soil_moisture |-> 0,
                       relay_status  |-> S_OFF,
                       status        |-> S_offline,
                       last_update   |-> <<>>]
    /\ data_history = [temperature   |-> <<>>,
                       humidity      |-> <<>>,
                       soil_moisture |-> <<>>,
                       timestamps    |-> <<>>]
    /\ data_lock = Unlocked
    /\ clock = 0
    /\ pc = [t \in Callers |-> "idle"]
    /\ msg = [t \in Callers |-> NoMsg]
    /\ copied = [t \in HttpThreads |-> NoCopy]
    /\ response = NoResponse
    /\ published = <<>>
    /\ arrived = [m \in Metrics |-> <<>>]
    /\ dropped = <<>>
    /\ nDelivered = 0
    /\ InitMock

\* Well-formed readings are delivered to on_message on either thread; each
\* invocation runs 96-130 statement by statement, interleaved with the other.
NextCallers ==
    \E t \in Callers :
        \/ Deliver(t, InboundReadings)
        \/ OnMessageAcquire(t)
        \/ OnMessageSetCurrent(t)
        \/ OnMessageAppendHistory(t)
        \/ OnMessageAppendTimestamp(t)
        \/ OnMessageLastUpdate(t)
        \/ OnMessageRelease(t)

SpecCallers == InitCallers /\ [][NextCallers]_vars

(***************************************************************************)
(* Module startup (app.py:139-146), before any thread runs.                *)
(***************************************************************************)
\* The state when the try block of line 139 is entered: the store has been
\* constructed, neither the MQTT thread nor a Flask thread has started.
InitStartup ==
    /\ current_data = [temperature   |-> 0,
                       humidity      |-> 0,
                       soil_moisture |-> 0,
                       relay_status  |-> S_OFF,
                       status        |-> S_offline,
                       last_update   |-> <<>>]
    /\ data_history = [temperature   |-> <<>>,
                       humidity      |-> <<>>,
                       soil_moisture |-> <<>>,
                       timestamps    |-> <<>>]
    /\ data_lock = Unlocked
    /\ clock = 0
    /\ pc = [t \in Threads |-> "startup"]
    /\ msg = [t \in Writers |-> NoMsg]
    /\ copied = [t \in HttpThreads |-> NoCopy]
    /\ response = NoResponse
    /\ published = <<>>
    /\ arrived = [m \in Metrics |-> <<>>]
    /\ dropped = <<>>
    /\ nDelivered = 0
    /\ InitMock

\* 140-141 succeed: mqtt_client is connected and loop_start() has started the
\* MQTT thread (whether or not 143 then raises); app.run serves requests.
StartupConnects ==
    /\ \A t \in Threads : pc[t] = "startup"
    /\ pc' = [t \in Threads |-> "idle"]
    /\ UNCHANGED << current_data, data_history, data_lock, clock, msg, copied,
                    response, published, arrived, dropped, nDelivered >>
    /\ UNCHANGED esp32

\* Mutant: the exception of connect() is not caught and ends the process.
StartupConnectFailsExits ==
    /\ \A t \in Threads : pc[t] = "startup"
    /\ pc' = [t \in Threads |-> "exited"]
    /\ UNCHANGED << current_data, data_history, data_lock, clock, msg, copied,
                    response, published, arrived, dropped, nDelivered >>
    /\ UNCHANGED esp32

\* 140 raises: 141 is skipped, so the MQTT thread is never started and
\* on_message is never called; 145-146 print the error; app.run serves requests.
StartupConnectFails ==
    /\ \A t \in Threads : pc[t] = "startup"
    /\ pc' = [t \in Threads |-> IF t \in Writers THEN "not_started" ELSE "idle"]
    /\ UNCHANGED << current_data, data_history, data_lock, clock, msg, copied,
                    response, published, arrived, dropped, nDelivered >>
    /\ UNCHANGED esp32

\* The dashboard from its startup on, with or without a broker.
NextStartup ==
    \/ StartupConnects
    \/ StartupConnectFails
    \/ \E t \in Writers :
        \/ nDelivered < MaxMsgsServing /\ Deliver(t, InboundServing)
        \/ OnMessageBody(t)
    \/ \E t \in HttpThreads : Routes(t)

SpecStartup == InitStartup /\ [][NextStartup]_vars

(***************************************************************************)
(* Properties.                                                             *)
(***************************************************************************)
\* on_message is not running: every delivered message has been processed.
WriterIdle == \A t \in Writers : pc[t] = "idle"

\* The payload of a numeric topic does not parse.
Malformed(topic, payload) ==
    topic \in NumericTopics /\ ParseFor(topic, payload) = <<>>

\* control_relay is the one route served in a single step.
ControlRelayStep == \E t \in HttpThreads : pc[t] = "idle" /\ pc'[t] = "done"

Smaller(a, b) == IF a < b THEN a ELSE b

\* C1: after N parsed messages on a numeric topic, that metric's history has
\* length min(N, capacity) and is the last min(N, capacity) parsed values in
\* arrival order; with capacity 3, temperature 21.0, 21.5, 22.0, 22.5 leaves
\* [21.5, 22.0, 22.5].
C1_HistoryIsLastArrivals ==
    WriterIdle =>
        /\ \A m \in Metrics :
            LET n == Len(arrived[m])
                k == Smaller(n, HISTORY_SIZE)
            IN  /\ Len(data_history[m]) = k
                /\ \A i \in 1..k : data_history[m][i] = arrived[m][n - k + i]
        /\ (HISTORY_SIZE = 3 /\ arrived.temperature = <<2100, 2150, 2200, 2250>>)
               => data_history.temperature = <<2150, 2200, 2250>>

\* C1 witness: four temperatures have been processed and the oldest is evicted.
C1_Witness ==
    /\ WriterIdle
    /\ arrived.temperature = <<2100, 2150, 2200, 2250>>
    /\ data_history.temperature = <<2150, 2200, 2250>>

\* C2: while on_message processes a malformed payload of a numeric topic, no
\* step changes the store (current values, the four series, last_update); a
\* message delivered after a dropped one is applied: the current value is the
\* last parsed value and the history holds min(N, capacity) entries.
C2_MalformedLeavesStore ==
    /\ [][ \A t \in Writers :
             (pc[t] # "idle" /\ Malformed(msg[t].topic, msg[t].payload))
                 => UNCHANGED store ]_vars
    /\ [](WriterIdle /\ dropped # <<>> =>
            \A m \in Metrics :
                Len(arrived[m]) > 0 =>
                    /\ current_data[m] = arrived[m][Len(arrived[m])]
                    /\ Len(data_history[m]) = Smaller(Len(arrived[m]), HISTORY_SIZE))

\* C2 witness: soil_moisture "abc" was dropped, "40" was applied.
C2_Witness ==
    /\ WriterIdle
    /\ nDelivered = 2
    /\ dropped = <<"sensor/soil_moisture", P_abc>>
    /\ current_data.soil_moisture = 40
    /\ data_history.soil_moisture = <<40>>

\* The command a request body carries; none counts as the empty command.
RequestCommand(body) ==
    IF /\ body.type = "object"
       /\ "command" \in DOMAIN body.members
       /\ body.members["command"].type = "string"
    THEN body.members["command"].chars
    ELSE <<>>

\* C3 (as claimed): control_relay publishes the uppercased command once, with
\* QoS 1 on actuator/relay_control, and answers success, exactly when the
\* uppercase command is ON, OFF or AUTO; for every other input it publishes
\* nothing and answers 400.
C3_ControlRelayAcceptsOrAnswers400 ==
    [][ ControlRelayStep =>
          LET cmd == Upper(RequestCommand(response'.request))
          IN  IF cmd \in {S_ON, S_OFF, S_AUTO}
              THEN /\ published' = Append(published,
                          [topic |-> "actuator/relay_control",
                           payload |-> cmd, qos |-> 1])
                   /\ response'.code = 200
                   /\ response'.body = [status |-> "success", command |-> cmd]
              ELSE /\ published' = published
                   /\ response'.code = 400 ]_vars

\* A numeric metric's current value is its initial one with an empty history,
\* or the newest entry of its history.
CurrentMatchesHistory(m) ==
    IF data_history[m] = <<>>
    THEN current_data[m] = 0
    ELSE current_data[m] = data_history[m][Len(data_history[m])]

\* C4: whenever on_message does not hold data_lock, every numeric metric's
\* current value matches its history (no half-applied update), and get_data
\* and get_history copy the store only in such states.
C4_NoTornUpdate ==
    /\ data_lock \notin Writers => \A m \in Metrics : CurrentMatchesHistory(m)
    /\ \A t \in HttpThreads :
          pc[t] \in {"data_copy", "history_copy"} =>
              /\ data_lock \notin Writers
              /\ \A m \in Metrics : CurrentMatchesHistory(m)

\* C4 witness: a route copies the store while on_message waits for the lock
\* with a message in hand, after an earlier update.
C4_Witness ==
    \E t \in HttpThreads, w \in Writers :
        /\ pc[t] \in {"data_copy", "history_copy"}
        /\ pc[w] = "acquire"
        /\ msg[w].topic = "sensor/temperature"
        /\ data_history.temperature # <<>>

\* C5: each of the four series never holds more than HISTORY_SIZE entries.
C5_SeriesWithinCapacity ==
    \A k \in {"temperature", "humidity", "soil_moisture", "timestamps"} :
        Len(data_history[k]) <= HISTORY_SIZE

\* C5 witness: more temperatures than the capacity have arrived, the
\* temperature and timestamp series are full, and get_history has copied
\* the full series while on_message waits for the lock.
C5_Witness ==
    /\ Len(arrived.temperature) > HISTORY_SIZE
    /\ Len(data_history.temperature) = HISTORY_SIZE
    /\ Len(data_history.timestamps) = HISTORY_SIZE
    /\ \E t \in HttpThreads :
          /\ pc[t] = "history_copy"
          /\ \E w \in Writers : pc[w] = "acquire"

\* C6 (as claimed): whenever on_message does not hold data_lock, the
\* timestamps series is as long as the temperature history.
C6_TimestampsMatchTemperature ==
    data_lock \notin Writers =>
        Len(data_history.timestamps) = Len(data_history.temperature)

\* C7 (as claimed): while on_message processes a message of a topic it does
\* not handle, no step changes the store, last_update included.
C7_UnhandledTopicLeavesStore ==
    [][ \A t \in Writers :
          (pc[t] # "idle" /\ msg[t].topic \notin HandledTopics)
              => UNCHANGED store ]_vars

\* C8: while on_message processes an actuator/relay_status message, no series
\* changes and no current value other than relay_status and last_update
\* changes; when it returns, relay_status is the uppercased payload ("on" is
\* stored as "ON").
C8_RelayStatusOnly ==
    [][ \A t \in Writers :
          (pc[t] # "idle" /\ msg[t].topic = "actuator/relay_status") =>
              /\ data_history' = data_history
              /\ \A k \in {"temperature", "humidity", "soil_moisture", "status"} :
                    current_data'[k] = current_data[k]
              /\ pc'[t] = "idle" =>
                    /\ current_data'.relay_status = Upper(msg[t].payload)
                    /\ msg[t].payload = P_on => current_data'.relay_status = S_ON
                    /\ current_data'.last_update = Strftime(msg[t].timestamp) ]_vars

\* C8 witness: relay_status "on" has been processed and nothing else.
C8_Witness ==
    /\ WriterIdle
    /\ nDelivered = 1
    /\ current_data.relay_status = S_ON
    /\ current_data.last_update # <<>>
    /\ \A k \in DOMAIN data_history : data_history[k] = <<>>

\* C9 (as claimed): when on_message returns from a sensor/status message, the
\* stored status is the lowercase form of the payload.
C9_StatusIsLowercased ==
    [][ \A t \in Writers :
          (pc[t] # "idle" /\ msg[t].topic = "sensor/status" /\ pc'[t] = "idle")
              => current_data'.status = Lower(msg[t].payload) ]_vars

\* C10: control_relay leaves current_data, data_history and data_lock as they
\* are, for every request; relay_status changes only in on_message's
\* actuator/relay_status branch, under the lock.
C10_ControlRelayLeavesStore ==
    [][ /\ ControlRelayStep => UNCHANGED << current_data, data_history, data_lock >>
        /\ current_data'.relay_status # current_data.relay_status =>
              \E t \in Writers :
                  /\ pc[t] = "dispatch"
                  /\ msg[t].topic = "actuator/relay_status"
                  /\ data_lock = t ]_vars

\* C10 witness: ON was accepted and published while on_message held the
\* lock; relay_status is still the initial OFF.
C10_Witness ==
    /\ response.route = "control"
    /\ response.code = 200
    /\ response.body.command = S_ON
    /\ published # <<>>
    /\ data_lock \in Writers
    /\ current_data.relay_status = S_OFF

\* C11: get_data and get_history copy the store while they hold data_lock, and
\* the copy is what they return: the copy equals current_data / data_history
\* at the step taken under the lock, no step of another thread changes a copy
\* a route holds, the response body is that copy, and no step of on_message
\* changes a response already returned.
C11_SnapshotIsCopy ==
    [][ /\ \A t \in HttpThreads :
            /\ (pc[t] = "data_copy" /\ pc'[t] = "data_return") =>
                    data_lock = t /\ copied'[t].value = current_data
            /\ (pc[t] = "history_copy" /\ pc'[t] = "history_return") =>
                    data_lock = t /\ copied'[t].value = data_history
            /\ (pc[t] \in {"data_return", "history_return"} /\ pc'[t] = pc[t]) =>
                    copied'[t] = copied[t]
            /\ (pc[t] \in {"data_return", "history_return"} /\ pc'[t] = "done") =>
                    response'.body = copied[t].value
        /\ (\E w \in Writers : pc'[w] # pc[w]) => response' = response ]_vars

\* C11 witness: get_data has returned its snapshot, and on_message has since
\* stored another temperature: the snapshot still shows the earlier one.
C11_Witness ==
    /\ response.route = "data"
    /\ WriterIdle
    /\ response.body.temperature # current_data.temperature
    /\ response.body.last_update # current_data.last_update

\* A Flask thread is waiting for a request, serving one, or has answered.
Serving(t) ==
    pc[t] \in {"idle", "data_copy", "data_return",
               "history_copy", "history_return", "done"}

\* C12: whatever connect() does at startup, the Flask threads come to serve;
\* when it fails the process goes on without the MQTT thread and no message
\* is ever delivered; and as long as no message has been delivered the store holds its initial values,
\* which is what get_data (0.0, 0.0, 0, OFF, offline, None) and get_history
\* (four empty series) answer with HTTP 200.
C12_OfflineServesDefaults ==
    /\ \A t \in HttpThreads : pc[t] = "startup" \/ Serving(t)
    /\ \A w \in Writers : pc[w] \in {"startup", "not_started"} => nDelivered = 0
    /\ nDelivered = 0 =>
            /\ current_data = [temperature |-> 0, humidity |-> 0,
                               soil_moisture |-> 0, relay_status |-> S_OFF,
                               status |-> S_offline, last_update |-> <<>>]
            /\ \A k \in DOMAIN data_history : data_history[k] = <<>>
            /\ response.route \in {"data", "history"} => response.code = 200
            /\ response.route = "data" => response.body = current_data
            /\ response.route = "history" => response.body = data_history

\* C12 witness: connect() failed, get_history has copied the series and
\* get_data has answered.
C12_Witness ==
    /\ \A w \in Writers : pc[w] = "not_started"
    /\ response.route = "data"
    /\ response.body.status = S_offline
    /\ \E t \in HttpThreads : copied[t] = [kind |-> "history", value |-> data_history]

\* The thread is at a statement that reads or writes current_data or
\* data_history (on_message 102-128, get_data 161, get_history 168-173).
InCritical(t) ==
    pc[t] \in {"dispatch", "append", "stamp", "last_update", "release",
               "data_copy", "history_copy"}

\* C13: a thread is at a statement that accesses the store exactly when it
\* holds data_lock, so at most one thread is at such a statement; every step
\* that changes current_data or data_history is a step of on_message taken
\* while its thread holds the lock, and every copy a route takes is taken
\* while its thread holds the lock.
C13_AccessUnderLock ==
    /\ [](\A t \in Threads : InCritical(t) <=> data_lock = t)
    /\ [](\A t1, t2 \in Threads : InCritical(t1) /\ InCritical(t2) => t1 = t2)
    /\ [][ /\ store' # store =>
                \E w \in Writers :
                    data_lock = w /\ InCritical(w) /\ pc'[w] # pc[w]
           /\ \A t \in HttpThreads :
                (copied'[t] # copied[t] /\ copied'[t] # NoCopy) => data_lock = t ]_vars

\* C13 witness: on_message is between its two writes (current value stored,
\* history not yet appended) and holds the lock, one Flask thread has
\* answered get_history and the other has not entered a with block.
C13_Witness ==
    \E w \in Writers, t1, t2 \in HttpThreads :
        /\ pc[w] = "append"
        /\ data_lock = w
        /\ pc[t1] = "done"
        /\ response.route = "history"
        /\ pc[t2] = "idle"

\* C14: whenever a thread holds data_lock it later does not hold it, also
\* when on_message raises ValueError inside the with block; and every
\* delivered message (valid, malformed, of an unhandled topic) is eventually
\* processed to the end, so the one after a malformed message is too.
C14_LockIsReleased ==
    /\ \A t \in Threads : (data_lock = t) ~> (data_lock # t)
    /\ \A w \in Writers : (pc[w] # "idle") ~> (pc[w] = "idle")

\* C14 witness: the first message was malformed and dropped, the second was
\* applied, and a route now holds the lock.
C14_Witness ==
    /\ dropped = <<"sensor/temperature", P_abc>>
    /\ clock = 2
    /\ WriterIdle
    /\ current_data.last_update = Strftime(clock)
    /\ data_history.temperature # <<>>
    /\ data_lock \in HttpThreads

\* C15: a step that produces an HTTP response or calls publish is taken by a
\* Flask thread that does not hold data_lock, before or after the step;
\* on_message, which holds it longest, produces neither.
C15_NoNetworkUnderLock ==
    [][ /\ \A t \in HttpThreads :
            (pc'[t] = "done" /\ pc[t] # "done") =>
                data_lock # t /\ data_lock' # t
        /\ (response' # response \/ published' # published) =>
                \E t \in HttpThreads : pc'[t] = "done" /\ pc[t] # "done" ]_vars

\* C15 witness: control_relay has published and get_history has answered,
\* and on_message is holding the lock.
C15_Witness ==
    /\ published # <<>>
    /\ response.route = "history"
    /\ \A t \in HttpThreads : pc[t] = "done"
    /\ \E w \in Writers : data_lock = w /\ pc[w] = "dispatch"

\* C16: whenever on_message is not inside its locked section, that is after
\* every sequence of inbound messages, the timestamps series is at least as
\* long as the soil_moisture history and at least as long as the temperature
\* history.
C16_TimestampsNotShorter ==
    data_lock \notin Writers =>
        /\ Len(data_history.timestamps) >= Len(data_history.soil_moisture)
        /\ Len(data_history.timestamps) >= Len(data_history.temperature)

\* C16 witness: two soil_moisture readings and no temperature have been
\* processed; the repair rule appended a timestamp for each.
C16_Witness ==
    /\ WriterIdle
    /\ data_history.temperature = <<>>
    /\ Len(data_history.soil_moisture) = 2
    /\ data_history.timestamps = <<Isoformat(1), Isoformat(2)>>

\* C17: while on_message processes a numeric message that parses, no step
\* changes the current value or the history of another numeric metric, nor
\* relay_status, nor status; no step of a humidity message changes the
\* timestamps series; and when on_message returns, the metric's current value
\* and newest history entry are the parsed value and last_update is the
\* message's time.
C17_NumericUpdateFrame ==
    [][ \A t \in Writers :
          (/\ pc[t] # "idle"
           /\ msg[t].topic \in NumericTopics
           /\ ~Malformed(msg[t].topic, msg[t].payload)) =>
              LET m == MetricOf(msg[t].topic) IN
              /\ \A k \in Metrics \ {m} :
                    /\ current_data'[k] = current_data[k]
                    /\ data_history'[k] = data_history[k]
              /\ current_data'.relay_status = current_data.relay_status
              /\ current_data'.status = current_data.status
              /\ msg[t].topic = "sensor/humidity" =>
                    data_history'.timestamps = data_history.timestamps
              /\ pc'[t] = "idle" =>
                    /\ current_data'[m] = ParseFor(msg[t].topic, msg[t].payload)[1]
                    /\ data_history'[m][Len(data_history'[m])] = current_data'[m]
                    /\ current_data'.last_update = Strftime(msg[t].timestamp) ]_vars

\* C17 witness: a temperature and then a humidity reading have been
\* processed: one timestamp, one entry in each of the two histories, and
\* last_update is the humidity message's time.
C17_Witness ==
    /\ WriterIdle
    /\ nDelivered = 2
    /\ data_history.humidity = <<4000>>
    /\ current_data.humidity = 4000
    /\ Len(data_history.temperature) = 1
    /\ data_history.timestamps = <<Isoformat(1)>>
    /\ data_history.soil_moisture = <<>>
    /\ current_data.last_update = Strftime(2)

C19_SoilStampsNewest ==
    [][ \A t \in Writers :
          (/\ pc[t] # "idle" /\ pc'[t] = "idle"
           /\ msg[t].topic = "sensor/soil_moisture"
           /\ ~Malformed(msg[t].topic, msg[t].payload)) =>
              /\ Len(data_history'.timestamps) = Len(data_history'.soil_moisture)
              /\ data_history'.timestamps[Len(data_history'.timestamps)]
                     = Isoformat(msg[t].timestamp) ]_vars

\* C20 (as claimed): in the mock device, whenever on_message is not running
\* and the command it processed last is OFF (ON), relay_state is False (True)
\* and auto_mode is False, whatever the main loop has done in between and
\* whatever the soil moisture is.
C20_ManualOverridesAuto ==
    (esp_pc.callback = "idle" /\ last_command \in {"ON", "OFF"}) =>
        /\ relay_state = (last_command = "ON")
        /\ auto_mode = FALSE

====
